---- MODULE Spec2Model ----
(***************************************************************************)
(* Sidebar of the documentation site: roving-tabindex keyboard navigation  *)
(* (src/src/env.d.ts), live search with highlighting (src/unnamed/part_003)*)
(* drag-to-resize with a persisted width (src/unnamed/part_002)            *)
(* and the bootstrap that wires them (src/src/lib/sidebar/index.ts).       *)
(*                                                                         *)
(* The document tree is a fixed page fixture with two sidebar containers,  *)
(* each holding one nav: static links first, then collapsible sections     *)
(* (the drawer's nav has two sections, the desktop nav only static links). *)
(* Sections are rendered expanded.  Classes and attributes of the elements *)
(* are the state.                                                          *)
(***************************************************************************)
EXTENDS Integers, Sequences, FiniteSets, TLC

(***************************************************************************)
(* State.                                                                  *)
(***************************************************************************)
VARIABLES
  inited,               \* initSidebar has run for the current page
  page,                 \* the page shown (decides the .active link)
  expanded,             \* .expanded class of each section
  hidden,               \* .hidden class of each nav item
  sectionHidden,        \* .hidden class of each section
  emptyState,           \* each search instance's empty-state element
  content,              \* child nodes of each nav item
  tabindex,             \* tabindex attribute of each nav item
  dataFocused,          \* the nav items carrying data-focused
  currentFocusedItem,   \* module-level focus cursor
  globalKeydownHandler, \* module-level reference to the installed listener
  focus,                \* document.activeElement
  lastEvent,            \* the event handled last, with its defaultPrevented
  documentListeners,    \* keydown listeners of the controller on the document
  isInitialized,        \* resizable: module-level flag
  isResizing,           \* resizable: a drag is in progress
  startX,               \* resizable: clientX at mousedown
  startWidth,           \* resizable: sidebar.offsetWidth at mousedown
  sidebarWidth,         \* sidebar.style.width, <<>> when unset
  gridTemplateColumns,  \* gridContainer.style.gridTemplateColumns, <<>> when unset
  storedWidth,          \* localStorage item of the width: <<>> or <<string>>
  innerWidth,           \* window.innerWidth
  cssMin,               \* value of --sidebar-width-min
  cssMax,               \* value of --sidebar-width-max
  resizeTimeout         \* resizable: the debounce timer is pending

vars ==
  <<inited, page, expanded, hidden, sectionHidden, emptyState,
    content, tabindex, dataFocused, currentFocusedItem, globalKeydownHandler,
    focus, lastEvent, documentListeners, isInitialized, isResizing, startX,
    startWidth, sidebarWidth, gridTemplateColumns, storedWidth, innerWidth,
    cssMin, cssMax, resizeTimeout>>

\* What the resizable module reads and writes.
resizeVars ==
  <<isInitialized, isResizing, startX, startWidth, sidebarWidth,
    gridTemplateColumns, storedWidth, innerWidth, cssMin, cssMax, resizeTimeout>>

\* What the keyboard and search modules read and write, the page included.
navVars ==
  <<inited, page, expanded, hidden, sectionHidden, emptyState, content,
    tabindex, dataFocused, currentFocusedItem, globalKeydownHandler, focus,
    documentListeners>>

searchVars == <<hidden, sectionHidden, emptyState, content>>

(***************************************************************************)
(* Page fixture (the markup is rendered by the page framework).            *)
(***************************************************************************)

\* The two sidebar containers, '#left-sidebar' and '#left-drawer'.
Instances == {"desktop", "mobile"}

\* The search input of a container.
SearchInputOf(inst) == IF inst = "desktop" THEN "search_desktop" ELSE "search_mobile"

SearchInputs == {SearchInputOf(inst) : inst \in Instances}

\* [data-nav-item] elements of each container's nav on a page with links, in
\* document order.
SidebarItemsSeq(inst) ==
  IF inst = "desktop" THEN <<"d0", "d1">> ELSE <<"m0", "m1", "m2", "m3">>

\* The same on the page "guide", whose desktop nav has a third link.
GuideItemsSeq(inst) ==
  IF inst = "desktop" THEN <<"d0", "d1", "d2">> ELSE SidebarItemsSeq(inst)

\* [data-nav-item] elements of each container's nav on the page shown; the
\* page "empty" renders both navs without links and sections.
NavItemsSeq(inst) ==
  CASE page = "empty" -> <<>>
    [] page = "guide" -> GuideItemsSeq(inst)
    [] OTHER -> SidebarItemsSeq(inst)

Range(s) == {s[k] : k \in 1..Len(s)}

Items == UNION {Range(GuideItemsSeq(inst)) : inst \in Instances}

\* .nav-section elements of each container's nav on a page with links, in
\* document order.
SidebarSectionsSeq(inst) ==
  IF inst = "desktop" THEN <<>> ELSE <<"mA", "mB">>

\* .nav-section elements of each container's nav on the page shown.
NavSectionsSeq(inst) == IF page = "empty" THEN <<>> ELSE SidebarSectionsSeq(inst)

Sections == UNION {Range(SidebarSectionsSeq(inst)) : inst \in Instances}

\* item.closest('.nav-section'); "none" for a static link.
SectionOf(item) ==
  CASE item \in {"m1", "m2"} -> "mA"
    [] item = "m3" -> "mB"
    [] OTHER -> "none"

\* The .nav-section-header of a section.
HeaderOf(s) == IF s = "mA" THEN "h_mA" ELSE "h_mB"

Headers == {HeaderOf(s) : s \in Sections}

\* target.closest('.nav-section') for a header.
SectionOfHeader(h) == CHOOSE s \in Sections : HeaderOf(s) = h

\* target.closest('.sidebar-nav'): the nav (named by its container) of an element.
NavOf(el) ==
  IF el \in Range(GuideItemsSeq("desktop")) THEN "desktop" ELSE "mobile"

\* The pages a visit starts on; the page decides which link carries .active.
Pages == {"home", "lesson", "other"}

\* The pages a page transition leads to: those, and a page whose navs are
\* rendered without links.
AllPages == Pages \cup {"empty"}

\* nav.querySelector('.nav-item.active'); "null" when the page has no active link.
ActiveItem(inst, pg) ==
  CASE pg = "home" -> IF inst = "desktop" THEN "d0" ELSE "m0"
    [] pg = "lesson" -> IF inst = "desktop" THEN "d1" ELSE "m2"
    [] pg = "guide" -> IF inst = "desktop" THEN "d2" ELSE "m3"
    [] OTHER -> "null"

\* A text node of the page as rendered: a sequence of one-character strings.
T(chars) == [mark |-> FALSE, text |-> chars]

\* The rendered children of each item: one element per entry, each holding
\* its child nodes (initially a single text node).
OriginalContent(item) ==
  CASE item = "m0" -> << <<T(<<"A", "b">>)>> >>
    [] item = "m1" -> << <<T(<<"b", "a", "b", "a">>)>> >>
    [] item = "m2" -> << <<T(<<"a">>)>>, <<T(<<"b">>)>> >>
    [] item = "m3" -> << <<T(<<"B", "B">>)>> >>
    [] item = "d0" -> << <<T(<<"a", "b">>)>> >>
    [] item = "d2" -> << <<T(<<"B">>)>> >>
    [] OTHER       -> << <<T(<<"b", " ", "A">>)>> >>

(***************************************************************************)
(* Bounds.                                                                 *)
(***************************************************************************)

\* The values a user types are the first NumQueries entries of QueryPool.
NumQueries == 5

QueryPool ==
  << <<>>, <<"a">>, <<" ", "A", "b">>, <<"z">>, <<" ">>, <<"B", "a", " ">>, <<"b">> >>

Queries == {QueryPool[k] : k \in 1..NumQueries}

\* The values typed while the keyboard navigation is exercised as well.
NumNavQueries == 2

NavQueries == {QueryPool[k] : k \in 1..NumNavQueries}

(***************************************************************************)
(* Text and highlighting (src/unnamed/part_003).                           *)
(***************************************************************************)

\* String.prototype.toLowerCase on one character.
LowerChar(c) == CASE c = "A" -> "a" [] c = "B" -> "b" [] c = "Z" -> "z" [] OTHER -> c

\* String.prototype.toLowerCase.
ToLowerCase(str) == [k \in 1..Len(str) |-> LowerChar(str[k])]

RECURSIVE TrimStart(_)
TrimStart(str) ==
  IF str # <<>> /\ Head(str) = " " THEN TrimStart(Tail(str)) ELSE str

RECURSIVE TrimEnd(_)
TrimEnd(str) ==
  IF str # <<>> /\ str[Len(str)] = " "
  THEN TrimEnd(SubSeq(str, 1, Len(str) - 1)) ELSE str

\* String.prototype.trim.
Trim(str) == TrimEnd(TrimStart(str))

\* const query = value.toLowerCase().trim()
QueryOf(value) == Trim(ToLowerCase(value))

\* String.prototype.indexOf, 1-based; 0 where JavaScript gives -1.
IndexOf(str, q) ==
  LET hits == {k \in 1..(Len(str) - Len(q) + 1) : SubSeq(str, k, k + Len(q) - 1) = q}
  IN IF hits = {} THEN 0 ELSE CHOOSE k \in hits : \A j \in hits : k <= j

\* String.prototype.includes.
Includes(str, q) ==
  \E k \in 1..(Len(str) - Len(q) + 1) : SubSeq(str, k, k + Len(q) - 1) = q

RECURSIVE ConcatText(_)
\* The concatenated text of a sequence of nodes.
ConcatText(nodes) ==
  IF nodes = <<>> THEN <<>> ELSE Head(nodes).text \o ConcatText(Tail(nodes))

RECURSIVE Flatten(_)
Flatten(seqs) == IF seqs = <<>> THEN <<>> ELSE Head(seqs) \o Flatten(Tail(seqs))

\* item.textContent: the text of all descendants, in document order.
TextContent(children) == ConcatText(Flatten(children))

\* HighlightNode that writes the query into the mark instead of the match.
HighlightNodeQueryText(node, query) ==
  LET text == node.text
      index == IndexOf(ToLowerCase(text), query)
      beforeText == SubSeq(text, 1, index - 1)
      afterText == SubSeq(text, index + Len(query), Len(text))
  IN IF index = 0 THEN <<node>>
     ELSE (IF beforeText # <<>> THEN <<T(beforeText)>> ELSE <<>>)
            \o <<[mark |-> TRUE, text |-> query]>>
            \o (IF afterText # <<>> THEN <<T(afterText)>> ELSE <<>>)

\* The before / <mark> / after fragment that replaces one text node.
HighlightNode(node, query) ==
  LET text == node.text
      index == IndexOf(ToLowerCase(text), query)
      beforeText == SubSeq(text, 1, index - 1)
      matchText == SubSeq(text, index, index + Len(query) - 1)
      afterText == SubSeq(text, index + Len(query), Len(text))
  IN IF index = 0 THEN <<node>>
     ELSE (IF beforeText # <<>> THEN <<T(beforeText)>> ELSE <<>>)
            \o <<[mark |-> TRUE, text |-> matchText]>>
            \o (IF afterText # <<>> THEN <<T(afterText)>> ELSE <<>>)

\* Whether the tree walker queues a text node for replacement.
Qualifies(node, query) == Includes(ToLowerCase(node.text), query)

RECURSIVE HighlightNodes(_, _)
HighlightNodes(nodes, query) ==
  IF nodes = <<>> THEN <<>>
  ELSE (IF ~Head(nodes).mark /\ Qualifies(Head(nodes), query)
        THEN HighlightNode(Head(nodes), query) ELSE <<Head(nodes)>>)
         \o HighlightNodes(Tail(nodes), query)

\* highlightText(element, query): every qualifying text node of the element
\* is replaced by its fragment (the marks were cleared just before, so every
\* text node met is a direct child of its original parent).
HighlightText(children, query) ==
  [k \in 1..Len(children) |-> HighlightNodes(children[k], query)]

\* parent.replaceChild(document.createTextNode(el.textContent), el) for the
\* .search-highlight elements among the child nodes.
ReplaceMarks(nodes) == [k \in 1..Len(nodes) |-> T(nodes[k].text)]

\* Normalize that leaves adjacent text nodes apart.
NormalizeNoMerge(nodes) == nodes

RECURSIVE Normalize(_)
\* Node.normalize: empty text nodes go, adjacent text nodes are joined.
Normalize(nodes) ==
  IF nodes = <<>> THEN <<>>
  ELSE LET h == Head(nodes)
           rest == Normalize(Tail(nodes))
       IN IF h.mark THEN <<h>> \o rest
          ELSE IF h.text = <<>> THEN rest
          ELSE IF rest # <<>> /\ ~Head(rest).mark
               THEN <<T(h.text \o Head(rest).text)>> \o Tail(rest)
               ELSE <<h>> \o rest

HasMark(nodes) == \E k \in 1..Len(nodes) : nodes[k].mark

\* The clearing loop over document.querySelectorAll('.search-highlight'):
\* only the parents of a mark are touched.
ClearParent(nodes) ==
  IF HasMark(nodes) THEN Normalize(ReplaceMarks(nodes)) ELSE nodes

ClearHighlights(cont) ==
  [it \in Items |-> [k \in 1..Len(cont[it]) |-> ClearParent(cont[it][k])]]

(***************************************************************************)
(* Events.                                                                 *)
(***************************************************************************)
Keys ==
  {"/", "Escape", "ArrowUp", "ArrowDown", "ArrowLeft", "ArrowRight", "Home", "End"}

NavKeys == {"ArrowUp", "ArrowDown", "ArrowLeft", "ArrowRight", "Home", "End"}

\* An event as the handlers see it, with the outcome of preventDefault.
Event(type, key, target, prevented, value) ==
  [type |-> type, key |-> key, target |-> target, prevented |-> prevented,
   value |-> value]

KeyEvent(key, target, prevented) == Event("keydown", key, target, prevented, <<>>)

(***************************************************************************)
(* Visible set (src/src/env.d.ts, getVisibleNavItems).                     *)
(***************************************************************************)

\* KeepsItem without the test of the enclosing section.
KeepsItemAnySection(item, hid, exp) == ~hid[item]

\* The filter of getVisibleNavItems applied to one item.
KeepsItem(item, hid, exp) ==
  /\ ~hid[item]
  /\ (SectionOf(item) = "none" \/ exp[SectionOf(item)])

GetVisibleNavItems(container, hid, exp) ==
  SelectSeq(NavItemsSeq(container), LAMBDA item : KeepsItem(item, hid, exp))

\* Array.prototype.indexOf, 1-based; 0 where JavaScript gives -1.
ArrayIndexOf(arr, el) ==
  IF \E k \in 1..Len(arr) : arr[k] = el
  THEN CHOOSE k \in 1..Len(arr) : arr[k] = el /\ \A j \in 1..(k - 1) : arr[j] # el
  ELSE 0

(***************************************************************************)
(* Focus.                                                                  *)
(***************************************************************************)

\* An element of a document that a page transition has replaced; the module
\* variables may still reference it.
Detached == "detached"

\* Whether the element is in the document shown.
Present(el) ==
  CASE el \in SearchInputs \cup {"body"} -> TRUE
    [] el \in Headers -> page # "empty"
    [] el \in Items -> IF el = "d2" THEN page = "guide" ELSE page # "empty"
    [] OTHER -> FALSE

\* Whether element.focus() moves the focus: the element must be rendered.
\* collapsedRendered: whether the style sheet keeps the links of a collapsed
\* section rendered (clipped) or takes them out of the rendering.
Focusable(el, collapsedRendered) ==
  CASE ~Present(el) -> FALSE
    [] el \in Items ->
         IF hidden[el] THEN FALSE
         ELSE IF SectionOf(el) = "none" THEN TRUE
         ELSE IF sectionHidden[SectionOf(el)] THEN FALSE
         ELSE IF collapsedRendered THEN TRUE
         ELSE expanded'[SectionOf(el)]
    [] el \in Headers -> ~sectionHidden[SectionOfHeader(el)]
    [] OTHER -> TRUE

\* The focusout listener: a nav item that loses the focus to something outside
\* the nav loses data-focused.
FocusOut(df, target, relatedTarget) ==
  IF target \in Items /\ relatedTarget \notin (Items \cup Headers)
  THEN df \ {target} ELSE df

\* element.focus(), with the focusout it dispatches.
FocusElement(el, df, collapsedRendered) ==
  IF Focusable(el, collapsedRendered) /\ el # focus
  THEN /\ focus' = el
       /\ dataFocused' = FocusOut(df, focus, el)
  ELSE /\ focus' = focus
       /\ dataFocused' = df

\* PreviousHolder that never names the previous item.
PreviousHolderNone(item) == {}

\* The element that loses tabindex 0 in setFocusedItem, if any.
PreviousHolder(item) ==
  IF currentFocusedItem # "null" /\ currentFocusedItem # item
  THEN {currentFocusedItem} ELSE {}

\* setFocusedItem(item)
SetFocusedItem(item, collapsedRendered) ==
  /\ tabindex' = [it \in Items |->
                    IF it = item THEN "0"
                    ELSE IF it \in PreviousHolder(item) THEN "-1"
                    ELSE tabindex[it]]
  /\ FocusElement(item, (dataFocused \ PreviousHolder(item)) \cup {item},
                  collapsedRendered)
  /\ currentFocusedItem' = item

(***************************************************************************)
(* Collapsible sections (./collapsible, imported by the keyboard module).  *)
(***************************************************************************)

\* The click listener of a section header: toggles its section.
ToggleSection(s) == expanded' = [expanded EXCEPT ![s] = ~@]

\* collapseCurrentSection(el): collapses the enclosing section, if any.
CollapseCurrentSection(el) ==
  expanded' = IF SectionOf(el) = "none" THEN expanded
              ELSE [expanded EXCEPT ![SectionOf(el)] = FALSE]

\* expandCurrentSection(el): expands the enclosing section, if any.
ExpandCurrentSection(el) ==
  expanded' = IF SectionOf(el) = "none" THEN expanded
              ELSE [expanded EXCEPT ![SectionOf(el)] = TRUE]

(***************************************************************************)
(* Key handlers (src/src/env.d.ts).                                        *)
(***************************************************************************)

cursorVars == <<tabindex, dataFocused, focus, currentFocusedItem>>

\* nav.querySelectorAll('.nav-section-header')
AllHeaders(nav) ==
  [k \in 1..Len(NavSectionsSeq(nav)) |-> HeaderOf(NavSectionsSeq(nav)[k])]

\* section.querySelector('.nav-item'): the first link of the section, hidden or not.
FirstItemOfSection(s) ==
  LET its == SelectSeq(NavItemsSeq(NavOf(HeaderOf(s))), LAMBDA it : SectionOf(it) = s)
  IN IF its = <<>> THEN "null" ELSE its[1]

\* nav.querySelectorAll(':scope > div:first-child [data-nav-item]')
StaticLinks(nav) == SelectSeq(NavItemsSeq(nav), LAMBDA it : SectionOf(it) = "none")

\* HeaderRightApplies without the test of the expanded class.
HeaderRightAlways(section) == TRUE

\* The guard of the ArrowRight case on a section header.
HeaderRightApplies(section) == ~expanded[section]

\* The guard of the ArrowLeft case on a section header.
HeaderLeftApplies(section) == expanded[section]

\* handleSectionHeaderKeydown(e, target)
HandleSectionHeaderKeydown(key, target, cr) ==
  LET nav == NavOf(target)
      section == SectionOfHeader(target)
      allHeaders == AllHeaders(nav)
      currentIndex == ArrayIndexOf(allHeaders, target)
      items == GetVisibleNavItems(nav, hidden, expanded)
  IN CASE key = "ArrowRight" ->
            IF HeaderRightApplies(section)
            THEN /\ ToggleSection(section)
                 /\ UNCHANGED cursorVars
                 /\ lastEvent' = KeyEvent(key, target, TRUE)
            ELSE /\ UNCHANGED <<expanded, cursorVars>>
                 /\ lastEvent' = KeyEvent(key, target, FALSE)
       [] key = "ArrowLeft" ->
            IF HeaderLeftApplies(section)
            THEN /\ ToggleSection(section)
                 /\ UNCHANGED cursorVars
                 /\ lastEvent' = KeyEvent(key, target, TRUE)
            ELSE /\ UNCHANGED <<expanded, cursorVars>>
                 /\ lastEvent' = KeyEvent(key, target, FALSE)
       [] key = "ArrowDown" ->
            /\ UNCHANGED expanded
            /\ lastEvent' = KeyEvent(key, target, TRUE)
            /\ IF expanded[section] /\ FirstItemOfSection(section) # "null"
               THEN SetFocusedItem(FirstItemOfSection(section), cr)
               ELSE IF currentIndex < Len(allHeaders)
               THEN /\ FocusElement(allHeaders[currentIndex + 1], dataFocused, cr)
                    /\ UNCHANGED <<tabindex, currentFocusedItem>>
               ELSE UNCHANGED cursorVars
       [] key = "ArrowUp" ->
            /\ UNCHANGED expanded
            /\ lastEvent' = KeyEvent(key, target, TRUE)
            /\ IF currentIndex > 1
               THEN /\ FocusElement(allHeaders[currentIndex - 1], dataFocused, cr)
                    /\ UNCHANGED <<tabindex, currentFocusedItem>>
               ELSE IF StaticLinks(nav) # <<>>
               THEN SetFocusedItem(StaticLinks(nav)[Len(StaticLinks(nav))], cr)
               ELSE UNCHANGED cursorVars
       [] key = "Home" ->
            /\ UNCHANGED expanded
            /\ lastEvent' = KeyEvent(key, target, TRUE)
            /\ IF items # <<>> THEN SetFocusedItem(items[1], cr)
               ELSE UNCHANGED cursorVars
       [] OTHER ->  \* End
            /\ UNCHANGED expanded
            /\ lastEvent' = KeyEvent(key, target, TRUE)
            /\ IF items # <<>> THEN SetFocusedItem(items[Len(items)], cr)
               ELSE UNCHANGED cursorVars

\* ItemLeftApplies that never finds the enclosing section.
ItemLeftNever(section) == FALSE

\* The guard of the ArrowLeft case on a nav item: target.closest('.nav-section').
ItemLeftApplies(section) == section # "none"

\* The branch of the ArrowDown case on a nav item that moves the cursor on.
ItemDownMoves(currentIndex, items) ==
  currentIndex >= 1 /\ currentIndex < Len(items)

\* handleNavItemKeydown(e, target)
HandleNavItemKeydown(key, target, cr) ==
  LET nav == NavOf(target)
      items == GetVisibleNavItems(nav, hidden, expanded)
      currentIndex == ArrayIndexOf(items, target)
      section == SectionOf(target)
  IN CASE key = "ArrowDown" ->
            /\ UNCHANGED expanded
            /\ lastEvent' = KeyEvent(key, target, TRUE)
            /\ IF ItemDownMoves(currentIndex, items)
               THEN SetFocusedItem(items[currentIndex + 1], cr)
               ELSE IF AllHeaders(nav) # <<>>
               THEN /\ FocusElement(AllHeaders(nav)[1], dataFocused, cr)
                    /\ UNCHANGED <<tabindex, currentFocusedItem>>
               ELSE UNCHANGED cursorVars
       [] key = "ArrowUp" ->
            /\ UNCHANGED expanded
            /\ lastEvent' = KeyEvent(key, target, TRUE)
            /\ IF currentIndex > 1
               THEN SetFocusedItem(items[currentIndex - 1], cr)
               ELSE IF section # "none"
               THEN /\ FocusElement(HeaderOf(section), dataFocused, cr)
                    /\ UNCHANGED <<tabindex, currentFocusedItem>>
               ELSE UNCHANGED cursorVars
       [] key = "ArrowLeft" ->
            /\ lastEvent' = KeyEvent(key, target, TRUE)
            /\ IF ItemLeftApplies(section)
               THEN /\ CollapseCurrentSection(target)
                    /\ FocusElement(HeaderOf(section), dataFocused, cr)
                    /\ UNCHANGED <<tabindex, currentFocusedItem>>
               ELSE UNCHANGED <<expanded, cursorVars>>
       [] key = "ArrowRight" ->
            /\ lastEvent' = KeyEvent(key, target, TRUE)
            /\ ExpandCurrentSection(target)
            /\ UNCHANGED cursorVars
       [] key = "Home" ->
            /\ UNCHANGED expanded
            /\ lastEvent' = KeyEvent(key, target, TRUE)
            /\ IF items # <<>> THEN SetFocusedItem(items[1], cr)
               ELSE UNCHANGED cursorVars
       [] OTHER ->  \* End
            /\ UNCHANGED expanded
            /\ lastEvent' = KeyEvent(key, target, TRUE)
            /\ IF items # <<>> THEN SetFocusedItem(items[Len(items)], cr)
               ELSE UNCHANGED cursorVars

\* The nav the redirect uses: the one of '.app-sidebar-left', the desktop sidebar.
ActiveNav == "desktop"

\* Case 3 of the global handler: the focus is neither on a header nor on an item.
RedirectIntoNav(key, target, cr) ==
  LET items == GetVisibleNavItems(ActiveNav, hidden, expanded)
      activeItem == ActiveItem(ActiveNav, page)
      targetItem == IF activeItem # "null" THEN activeItem
                    ELSE IF currentFocusedItem # "null" THEN currentFocusedItem
                    ELSE items[1]
  IN /\ UNCHANGED expanded
     /\ lastEvent' = KeyEvent(key, target, TRUE)
     /\ IF items = <<>> THEN UNCHANGED cursorVars
        ELSE IF ArrayIndexOf(items, targetItem) # 0
        THEN SetFocusedItem(targetItem, cr)
        ELSE SetFocusedItem(items[1], cr)

\* The listener createKeydownHandler(nav, searchInput) returns; searchInput is
\* the input initKeyboardNavigation was given.
KeydownHandler(key, target, cr) ==
  IF target \in SearchInputs /\ key # "Escape"
  THEN /\ UNCHANGED <<expanded, cursorVars>>
       /\ lastEvent' = KeyEvent(key, target, FALSE)
  ELSE IF key = "/"
  THEN /\ UNCHANGED <<expanded, tabindex, currentFocusedItem>>
       /\ FocusElement(SearchInputOf("mobile"), dataFocused, cr)
       /\ lastEvent' = KeyEvent(key, target, TRUE)
  ELSE IF key = "Escape" /\ target = SearchInputOf("mobile")
  THEN /\ UNCHANGED <<expanded, tabindex, currentFocusedItem, dataFocused>>
       /\ focus' = IF currentFocusedItem # "null" /\ Focusable(currentFocusedItem, cr)
                   THEN currentFocusedItem ELSE "body"
       /\ lastEvent' = KeyEvent(key, target, TRUE)
  ELSE IF key \notin NavKeys
  THEN /\ UNCHANGED <<expanded, cursorVars>>
       /\ lastEvent' = KeyEvent(key, target, FALSE)
  ELSE IF target \in Headers THEN HandleSectionHeaderKeydown(key, target, cr)
  ELSE IF target \in Items THEN HandleNavItemKeydown(key, target, cr)
  ELSE RedirectIntoNav(key, target, cr)

\* A keydown event reaches the document; its target is the focused element.
KeyDown(key, cr) ==
  /\ inited
  /\ globalKeydownHandler # "null"
  /\ KeydownHandler(key, focus, cr)
  /\ UNCHANGED <<inited, page, searchVars, globalKeydownHandler,
                 documentListeners, resizeVars>>

(***************************************************************************)
(* Search (src/unnamed/part_003).                                          *)
(***************************************************************************)

\* ScopeItems taken from the document instead of the container.
ScopeItemsOfDocument(inst) == Items

\* container.querySelectorAll('[data-nav-item]'), taken when initSearch runs.
ScopeItems(inst) == Range(NavItemsSeq(inst))

\* container.querySelectorAll('.nav-section'), taken when initSearch runs.
ScopeSections(inst) == Range(NavSectionsSeq(inst))

\* ItemMatches without lowering the item's text.
ItemMatchesCaseSensitive(children, query) == Includes(TextContent(children), query)

\* textContent.includes(query) for one item.
ItemMatches(children, query) == Includes(ToLowerCase(TextContent(children)), query)

\* SectionIsEmpty counting only the links of an expanded section.
SectionIsEmptyOrCollapsed(s, hid) ==
  \A it \in Items : SectionOf(it) = s => (hid[it] \/ ~expanded[s])

\* section.querySelectorAll('[data-nav-item]:not(.hidden)').length === 0
SectionIsEmpty(s, hid) == \A it \in Items : SectionOf(it) = s => hid[it]

\* What one search instance reads and writes.
SearchState ==
  [hidden |-> hidden, sectionHidden |-> sectionHidden, emptyState |-> emptyState,
   content |-> content]

\* ShowAll that forgets the sections.
ShowAllItemsOnly(st, inst, cleared) ==
  [hidden |-> [it \in Items |-> IF it \in Range(NavItemsSeq(inst)) THEN FALSE
                                ELSE st.hidden[it]],
   sectionHidden |-> st.sectionHidden,
   emptyState |-> [st.emptyState EXCEPT ![inst] = "hidden"],
   content |-> cleared]

\* The branch for an empty query: everything in scope is shown again.
ShowAll(st, inst, cleared) ==
  [hidden |-> [it \in Items |-> IF it \in ScopeItems(inst) THEN FALSE ELSE st.hidden[it]],
   sectionHidden |-> [s \in Sections |->
                        IF s \in ScopeSections(inst) THEN FALSE ELSE st.sectionHidden[s]],
   emptyState |-> [st.emptyState EXCEPT ![inst] = "hidden"],
   content |-> cleared]

\* The .hidden class of the items after the item pass.
FilterItems(st, inst, query, cleared) ==
  [it \in Items |->
     IF it \in ScopeItems(inst) THEN ~ItemMatches(cleared[it], query) ELSE st.hidden[it]]

\* The branch for a non-empty query: item pass, section pass, empty-state.
Filter(st, inst, query, cleared) ==
  LET newHidden == FilterItems(st, inst, query, cleared)
      hasVisibleItems == \E it \in ScopeItems(inst) : ~newHidden[it]
  IN [hidden |-> newHidden,
      sectionHidden |-> [s \in Sections |->
                           IF s \in ScopeSections(inst)
                           THEN SectionIsEmpty(s, newHidden) ELSE st.sectionHidden[s]],
      emptyState |-> [st.emptyState EXCEPT
                        ![inst] = IF hasVisibleItems THEN "hidden" ELSE "shown"],
      content |-> [it \in Items |->
                     IF it \in ScopeItems(inst) /\ ~newHidden[it]
                     THEN HighlightText(cleared[it], query) ELSE cleared[it]]]

\* The input listener of one search instance, as a function of what it reads.
InputResult(st, inst, value) ==
  LET query == QueryOf(value)
      cleared == ClearHighlights(st.content)
  IN IF query = <<>> THEN ShowAll(st, inst, cleared)
     ELSE Filter(st, inst, query, cleared)

\* The input listener of one search instance.
OnInput(inst, value) ==
  LET r == InputResult(SearchState, inst, value)
  IN /\ hidden' = r.hidden
     /\ sectionHidden' = r.sectionHidden
     /\ emptyState' = r.emptyState
     /\ content' = r.content

\* The user types in a search input: an input event with the input's new value.
SearchInput(inst, value) ==
  /\ inited
  /\ focus = SearchInputOf(inst)
  /\ OnInput(inst, value)
  /\ lastEvent' = Event("input", "", SearchInputOf(inst), FALSE, value)
  /\ UNCHANGED <<inited, page, expanded, cursorVars,
                 globalKeydownHandler, documentListeners, resizeVars>>

(***************************************************************************)
(* Resizable sidebar (src/unnamed/part_002).  The state kept is the two    *)
(* inline styles the claims are about, the stored width and the drag; the  *)
(* cursor, user-select and transition styles are left out.                 *)
(***************************************************************************)

\* The desktop breakpoint of window.innerWidth.
Breakpoint == 1024

\* The viewport widths tried: just below the breakpoint and at it.
Viewports == {Breakpoint - 1, Breakpoint}

\* The width the style sheet gives the sidebar without an inline width.
DefaultWidth == 11

\* Pointer positions are 0..MaxClientX.
MaxClientX == 3

ClientXs == 0..MaxClientX

\* Values getPropertyValue returns for a width bound: two lengths (one with
\* the leading space of a declaration), the empty string of an absent
\* property, and a keyword.
CssValues ==
  { <<" ", "1", "0", "p", "x">>, <<"1", "2", "p", "x">>, <<>>,
    <<"a", "u", "t", "o">> }

\* The value of --toc-width.
TocWidth == <<" ", "9", "p", "x">>

DigitChars == <<"0", "1", "2", "3", "4", "5", "6", "7", "8", "9">>

IsDigit(c) == \E d \in 1..10 : DigitChars[d] = c

DigitValue(c) == (CHOOSE d \in 1..10 : DigitChars[d] = c) - 1

\* The value of the longest prefix of digits of str, continuing from acc.
RECURSIVE ParseDigits(_, _)
ParseDigits(str, acc) ==
  IF str # <<>> /\ IsDigit(Head(str))
  THEN ParseDigits(Tail(str), 10 * acc + DigitValue(Head(str)))
  ELSE acc

\* parseInt(str, 10) for unsigned input: {n}, or {} for NaN.
ParseInt(str) ==
  LET s == TrimStart(str)
  IN IF s # <<>> /\ IsDigit(Head(s)) THEN {ParseDigits(s, 0)} ELSE {}

\* Number.prototype.toString for a natural number.
RECURSIVE NumberToString(_)
NumberToString(n) ==
  IF n < 10 THEN <<DigitChars[n + 1]>>
  ELSE NumberToString(n \div 10) \o <<DigitChars[(n % 10) + 1]>>

\* Ge that lets a NaN through.
GeOrNaN(a, b) == a = {} \/ b = {} \/ \E x \in a, y \in b : x >= y

\* a >= b and a <= b on results of parseInt: false when either is NaN.
Ge(a, b) == \E x \in a, y \in b : x >= y

Le(a, b) == \E x \in a, y \in b : x <= y

\* `${width}px`
Px(width) == NumberToString(width) \o <<"p", "x">>

\* sidebar.offsetWidth: the inline width when there is one.
OffsetWidth(style) ==
  IF style = <<>> THEN DefaultWidth ELSE CHOOSE n \in ParseInt(style) : TRUE

\* updateGridColumns(gridContainer, sidebarWidth): the new gridTemplateColumns.
UpdateGridColumns(viewport, width) ==
  IF viewport < Breakpoint THEN <<>>
  ELSE <<Px(width), <<"1", "f", "r">>, Trim(TocWidth)>>

\* WithinBounds that tests the lower bound only.
WithinLowerBound(width, minWidth, maxWidth) == Ge(width, minWidth)

\* The guard both the restoration and the drag put before writing a width.
WithinBounds(width, minWidth, maxWidth) ==
  Ge(width, minWidth) /\ Le(width, maxWidth)

\* RestoreApplies without the test of the viewport.
RestoreAppliesAnyViewport(stored, viewport, minValue, maxValue) ==
  /\ stored # <<>>
  /\ stored[1] # <<>>
  /\ WithinBounds(ParseInt(stored[1]), ParseInt(minValue), ParseInt(maxValue))

\* Whether initResizable applies the stored width.
RestoreApplies(stored, viewport, minValue, maxValue) ==
  /\ stored # <<>>
  /\ stored[1] # <<>>
  /\ viewport >= Breakpoint
  /\ WithinBounds(ParseInt(stored[1]), ParseInt(minValue), ParseInt(maxValue))

\* initResizable(); the container, handle, sidebar and grid exist on every page.
InitResizable ==
  IF isInitialized
  THEN UNCHANGED resizeVars
  ELSE LET cleared == IF innerWidth < Breakpoint THEN <<>> ELSE gridTemplateColumns
           width == CHOOSE n \in ParseInt(storedWidth[1]) : TRUE
       IN /\ IF RestoreApplies(storedWidth, innerWidth, cssMin, cssMax)
             THEN /\ sidebarWidth' = Px(width)
                  /\ gridTemplateColumns' = UpdateGridColumns(innerWidth, width)
             ELSE /\ sidebarWidth' = sidebarWidth
                  /\ gridTemplateColumns' = cleared
          /\ isInitialized' = TRUE
          /\ isResizing' = FALSE
          /\ startX' = 0
          /\ startWidth' = 0
          /\ resizeTimeout' = FALSE
          /\ UNCHANGED <<storedWidth, innerWidth, cssMin, cssMax>>

\* The mousedown listener of the resize handle.
MouseDown(clientX) ==
  /\ inited
  /\ isResizing' = TRUE
  /\ startX' = clientX
  /\ startWidth' = OffsetWidth(sidebarWidth)
  /\ lastEvent' = Event("mousedown", "", "handle", TRUE, <<>>)
  /\ UNCHANGED <<navVars, isInitialized, sidebarWidth, gridTemplateColumns,
                 storedWidth, innerWidth, cssMin, cssMax, resizeTimeout>>

\* The mousemove listener of the document.
MouseMove(clientX) ==
  /\ inited
  /\ LET delta == clientX - startX
         newWidth == startWidth + delta
     IN IF ~isResizing
        THEN /\ UNCHANGED <<sidebarWidth, gridTemplateColumns>>
             /\ lastEvent' = Event("mousemove", "", "body", FALSE,
                                   NumberToString(clientX))
        ELSE /\ IF WithinBounds({newWidth}, ParseInt(cssMin), ParseInt(cssMax))
                THEN /\ sidebarWidth' = Px(newWidth)
                     /\ gridTemplateColumns' =
                          IF innerWidth >= Breakpoint
                          THEN UpdateGridColumns(innerWidth, newWidth)
                          ELSE gridTemplateColumns
                ELSE UNCHANGED <<sidebarWidth, gridTemplateColumns>>
             /\ lastEvent' = Event("mousemove", "", "body", FALSE,
                                   NumberToString(clientX))
  /\ UNCHANGED <<navVars, isInitialized, isResizing, startX, startWidth,
                 storedWidth, innerWidth, cssMin, cssMax, resizeTimeout>>

\* The mouseup listener of the document.
MouseUp ==
  /\ inited
  /\ IF isResizing
     THEN /\ isResizing' = FALSE
          /\ storedWidth' = <<NumberToString(OffsetWidth(sidebarWidth))>>
     ELSE UNCHANGED <<isResizing, storedWidth>>
  /\ lastEvent' = Event("mouseup", "", "body", FALSE, <<>>)
  /\ UNCHANGED <<navVars, isInitialized, startX, startWidth, sidebarWidth,
                 gridTemplateColumns, innerWidth, cssMin, cssMax, resizeTimeout>>

\* The window is resized: the resize listener restarts its timer.
WindowResize(viewport) ==
  /\ inited
  /\ viewport # innerWidth
  /\ innerWidth' = viewport
  /\ resizeTimeout' = TRUE
  /\ lastEvent' = Event("resize", "", "window", FALSE, <<>>)
  /\ UNCHANGED <<navVars, isInitialized, isResizing, startX, startWidth,
                 sidebarWidth, gridTemplateColumns, storedWidth, cssMin, cssMax>>

\* TimerRebuilds that never finds a custom width.
TimerRebuildsNever(viewport, style) == FALSE

\* The second branch of the timer callback: desktop viewport and an inline
\* width on the sidebar.
TimerRebuilds(viewport, style) == viewport >= Breakpoint /\ style # <<>>

\* The timer of the resize listener fires.
ResizeTimeout ==
  /\ inited
  /\ resizeTimeout
  /\ resizeTimeout' = FALSE
  /\ gridTemplateColumns' =
       IF innerWidth < Breakpoint THEN <<>>
       ELSE IF TimerRebuilds(innerWidth, sidebarWidth)
               /\ OffsetWidth(sidebarWidth) # 0
       THEN UpdateGridColumns(innerWidth, OffsetWidth(sidebarWidth))
       ELSE gridTemplateColumns
  /\ lastEvent' = Event("timeout", "", "window", FALSE, <<>>)
  /\ UNCHANGED <<navVars, isInitialized, isResizing, startX, startWidth,
                 sidebarWidth, storedWidth, innerWidth, cssMin, cssMax>>

(***************************************************************************)
(* Bootstrap (src/src/lib/sidebar/index.ts, src/src/env.d.ts).             *)
(***************************************************************************)

NoEvent == Event("none", "", "body", FALSE, <<>>)

\* initializeTabindex(nav)
InitializeTabindex(nav) ==
  LET items == GetVisibleNavItems(nav, hidden, expanded)
      activeItem == ActiveItem(nav, page)
      first == IF activeItem # "null" THEN activeItem
               ELSE IF items # <<>> THEN items[1] ELSE "null"
  IN /\ tabindex' = [it \in Items |->
                       IF it = first THEN "0"
                       ELSE IF it \in Range(items) THEN "-1"
                       ELSE tabindex[it]]
     /\ currentFocusedItem' = IF first # "null" THEN first ELSE currentFocusedItem

\* RemovePrevious that leaves the previous listener registered.
KeepPrevious(n) == n

\* document.removeEventListener of the previous handler, if there is one.
RemovePrevious(n) == IF globalKeydownHandler # "null" THEN n - 1 ELSE n

\* initKeyboardNavigation(searchInputId), from the search input's container.
InitKeyboardNavigation(inst) ==
  /\ InitializeTabindex(inst)
  /\ globalKeydownHandler' = "handler"
  /\ documentListeners' = RemovePrevious(documentListeners) + 1

\* initSidebar()
InitSidebar ==
  /\ ~inited
  /\ inited' = TRUE
  /\ InitKeyboardNavigation("mobile")
  /\ emptyState' = [inst \in Instances |-> "hidden"]
  /\ InitResizable
  /\ lastEvent' = Event("init", "", "body", FALSE, <<>>)
  /\ UNCHANGED <<page, expanded, hidden, sectionHidden, content,
                 dataFocused, focus>>

\* initKeyboardNavigation('sidebar-search-mobile') called again on the document
\* it has already been called on.
ReinitKeyboardNavigation ==
  /\ inited
  /\ InitKeyboardNavigation("mobile")
  /\ lastEvent' = Event("init", "", "body", FALSE, <<>>)
  /\ UNCHANGED <<inited, page, expanded, searchVars, dataFocused, focus,
                 resizeVars>>

(***************************************************************************)
(* Page lifecycle.                                                         *)
(***************************************************************************)

\* The document after a page is rendered: no inline style, no class or
\* attribute set by a script, the focus on the body.
FreshDocument ==
  /\ inited' = FALSE
  /\ expanded' = [s \in Sections |-> TRUE]
  /\ hidden' = [it \in Items |-> FALSE]
  /\ sectionHidden' = [s \in Sections |-> FALSE]
  /\ emptyState' = [inst \in Instances |-> "absent"]
  /\ content' = [it \in Items |-> OriginalContent(it)]
  /\ tabindex' = [it \in Items |-> "none"]
  /\ dataFocused' = {}
  /\ focus' = "body"
  /\ sidebarWidth' = <<>>
  /\ gridTemplateColumns' = <<>>
  /\ isResizing' = FALSE
  /\ startX' = 0
  /\ startWidth' = 0
  /\ resizeTimeout' = FALSE

\* A page transition of the framework: 'astro:before-swap' resets the flag of
\* the resizable module, then the document is replaced; the module variables
\* of the keyboard controller and its document listener stay.
PageTransition(pg) ==
  /\ inited
  /\ ~isResizing
  /\ page' = pg
  /\ FreshDocument
  /\ isInitialized' = FALSE
  /\ currentFocusedItem' =
       IF currentFocusedItem = "null" THEN "null" ELSE Detached
  /\ lastEvent' = Event("swap", "", "body", FALSE, <<>>)
  /\ UNCHANGED <<globalKeydownHandler, documentListeners, storedWidth,
                 innerWidth, cssMin, cssMax>>

\* The page is loaded anew: the modules start over, the stored width stays;
\* the style sheet loaded may define other bounds.
Reload(minValue, maxValue) ==
  /\ inited
  /\ FreshDocument
  /\ isInitialized' = FALSE
  /\ currentFocusedItem' = "null"
  /\ globalKeydownHandler' = "null"
  /\ documentListeners' = 0
  /\ cssMin' = minValue
  /\ cssMax' = maxValue
  /\ lastEvent' = Event("load", "", "body", FALSE, <<>>)
  /\ UNCHANGED <<page, storedWidth, innerWidth>>

(***************************************************************************)
(* The user's pointer and Tab key.                                         *)
(***************************************************************************)

Focusables == Items \cup Headers \cup SearchInputs \cup {"body"}

\* The focus moves to a rendered element by a click or by Tab.
UserFocus(el) ==
  /\ inited
  /\ el # focus
  /\ UNCHANGED expanded
  /\ Focusable(el, FALSE)
  /\ FocusElement(el, dataFocused, FALSE)
  /\ lastEvent' = Event("focus", "", el, FALSE, <<>>)
  /\ UNCHANGED <<inited, page, searchVars, tabindex,
                 currentFocusedItem, globalKeydownHandler, documentListeners,
                 resizeVars>>

\* A click on a section header: the header takes the focus and its listener runs.
HeaderClick(s) ==
  /\ inited
  /\ Present(HeaderOf(s))
  /\ ~sectionHidden[s]
  /\ ToggleSection(s)
  /\ FocusElement(HeaderOf(s), dataFocused, FALSE)
  /\ lastEvent' = Event("click", "", HeaderOf(s), FALSE, <<>>)
  /\ UNCHANGED <<inited, page, searchVars, tabindex,
                 currentFocusedItem, globalKeydownHandler, documentListeners,
                 resizeVars>>

(***************************************************************************)
(* Specification.                                                          *)
(***************************************************************************)

Init ==
  /\ inited = FALSE
  /\ page \in Pages
  /\ expanded = [s \in Sections |-> TRUE]
  /\ hidden = [it \in Items |-> FALSE]
  /\ sectionHidden = [s \in Sections |-> FALSE]
  /\ emptyState = [inst \in Instances |-> "absent"]
  /\ content = [it \in Items |-> OriginalContent(it)]
  /\ tabindex = [it \in Items |-> "none"]
  /\ dataFocused = {}
  /\ currentFocusedItem = "null"
  /\ globalKeydownHandler = "null"
  /\ focus = "body"
  /\ lastEvent = NoEvent
  /\ documentListeners = 0
  /\ isInitialized = FALSE
  /\ isResizing = FALSE
  /\ startX = 0
  /\ startWidth = 0
  /\ sidebarWidth = <<>>
  /\ gridTemplateColumns = <<>>
  /\ storedWidth = <<>>
  /\ innerWidth = Breakpoint
  /\ cssMin = <<" ", "1", "0", "p", "x">>
  /\ cssMax = <<"1", "2", "p", "x">>
  /\ resizeTimeout = FALSE

\* Keyboard navigation, section toggles and search together.
Next ==
  \/ InitSidebar
  \/ \E key \in Keys, cr \in BOOLEAN : KeyDown(key, cr)
  \/ \E inst \in Instances, value \in NavQueries : SearchInput(inst, value)
  \/ \E el \in Focusables : UserFocus(el)
  \/ \E s \in Sections : HeaderClick(s)

Spec == Init /\ [][Next]_vars

\* The search instances under every query, with the sections toggled by the
\* pointer and the focus moved by the user.
NextSearch ==
  \/ InitSidebar
  \/ \E inst \in Instances, value \in Queries : SearchInput(inst, value)
  \/ \E el \in Focusables : UserFocus(el)
  \/ \E s \in Sections : HeaderClick(s)

SpecSearch == Init /\ [][NextSearch]_vars

\* A visit to the home page under each viewport and each pair of width bounds.
InitResize ==
  /\ inited = FALSE
  /\ page = "home"
  /\ expanded = [s \in Sections |-> TRUE]
  /\ hidden = [it \in Items |-> FALSE]
  /\ sectionHidden = [s \in Sections |-> FALSE]
  /\ emptyState = [inst \in Instances |-> "absent"]
  /\ content = [it \in Items |-> OriginalContent(it)]
  /\ tabindex = [it \in Items |-> "none"]
  /\ dataFocused = {}
  /\ currentFocusedItem = "null"
  /\ globalKeydownHandler = "null"
  /\ focus = "body"
  /\ lastEvent = NoEvent
  /\ documentListeners = 0
  /\ isInitialized = FALSE
  /\ isResizing = FALSE
  /\ startX = 0
  /\ startWidth = 0
  /\ sidebarWidth = <<>>
  /\ gridTemplateColumns = <<>>
  /\ storedWidth = <<>>
  /\ innerWidth \in Viewports
  /\ cssMin \in CssValues
  /\ cssMax \in CssValues
  /\ resizeTimeout = FALSE

\* The drag, the viewport, reloads and transitions to the same page.
NextResize ==
  \/ InitSidebar
  \/ \E x \in ClientXs : MouseDown(x)
  \/ \E x \in ClientXs : MouseMove(x)
  \/ MouseUp
  \/ \E w \in Viewports : WindowResize(w)
  \/ ResizeTimeout
  \/ PageTransition(page)
  \/ \E minValue \in CssValues, maxValue \in CssValues : Reload(minValue, maxValue)

SpecResize == InitResize /\ [][NextResize]_vars

\* Page transitions with the keyboard navigation and the section toggles.
NextPages ==
  \/ InitSidebar
  \/ \E pg \in AllPages : PageTransition(pg)
  \/ \E key \in Keys, cr \in BOOLEAN : KeyDown(key, cr)
  \/ \E el \in Focusables : UserFocus(el)
  \/ \E s \in Sections : HeaderClick(s)

SpecPages == Init /\ [][NextPages]_vars

\* A visit to the page "guide".
InitGuide ==
  /\ inited = FALSE
  /\ page = "guide"
  /\ expanded = [s \in Sections |-> TRUE]
  /\ hidden = [it \in Items |-> FALSE]
  /\ sectionHidden = [s \in Sections |-> FALSE]
  /\ emptyState = [inst \in Instances |-> "absent"]
  /\ content = [it \in Items |-> OriginalContent(it)]
  /\ tabindex = [it \in Items |-> "none"]
  /\ dataFocused = {}
  /\ currentFocusedItem = "null"
  /\ globalKeydownHandler = "null"
  /\ focus = "body"
  /\ lastEvent = NoEvent
  /\ documentListeners = 0
  /\ isInitialized = FALSE
  /\ isResizing = FALSE
  /\ startX = 0
  /\ startWidth = 0
  /\ sidebarWidth = <<>>
  /\ gridTemplateColumns = <<>>
  /\ storedWidth = <<>>
  /\ innerWidth = Breakpoint
  /\ cssMin = <<" ", "1", "0", "p", "x">>
  /\ cssMax = <<"1", "2", "p", "x">>
  /\ resizeTimeout = FALSE

\* Keyboard navigation on the page "guide", with the search of the desktop
\* sidebar.
NextGuide ==
  \/ InitSidebar
  \/ \E key \in Keys, cr \in BOOLEAN : KeyDown(key, cr)
  \/ \E value \in NavQueries : SearchInput("desktop", value)
  \/ \E el \in Focusables : UserFocus(el)

SpecGuide == InitGuide /\ [][NextGuide]_vars

\* The vertical arrow keys with repeated calls of initKeyboardNavigation on
\* one document.
NextReinit ==
  \/ InitSidebar
  \/ ReinitKeyboardNavigation
  \/ \E key \in {"ArrowDown", "ArrowUp"} : KeyDown(key, FALSE)
  \/ \E el \in Focusables : UserFocus(el)

SpecReinit == Init /\ [][NextReinit]_vars

\* The values typed in the drawer's search input while its nav is navigated:
\* the empty value and one that filters out a static link.
FilterQueries == {<<>>, <<"B", "a", " ">>}

\* Keyboard navigation of the drawer's nav under its search filter.
NextFilter ==
  \/ InitSidebar
  \/ \E key \in Keys, cr \in BOOLEAN : KeyDown(key, cr)
  \/ \E value \in FilterQueries : SearchInput("mobile", value)
  \/ \E el \in Focusables : UserFocus(el)

SpecFilter == Init /\ [][NextFilter]_vars

(***************************************************************************)
(* Properties.                                                             *)
(***************************************************************************)

\* The nav initKeyboardNavigation was given (src/src/lib/sidebar/index.ts:14).
KeyboardNav == "mobile"

\* Membership of the navigable set, stated from the classes alone.
Navigable(item) ==
  /\ ~hidden[item]
  /\ (SectionOf(item) = "none" \/ expanded[SectionOf(item)])

\* C1: after initKeyboardNavigation, and after any sequence of key events,
\* search inputs and section toggles, exactly one item of the nav's visible
\* navigable set has tabindex 0 and every other item of that set has -1.
C1_RovingTabindex ==
  inited =>
    LET visible == {it \in Range(NavItemsSeq(KeyboardNav)) : Navigable(it)}
    IN /\ Cardinality({it \in visible : tabindex[it] = "0"}) = 1
       /\ \A it \in visible : tabindex[it] \in {"0", "-1"}

\* C2: whenever the focus cursor is non-null after initialization, the element
\* it references is a member of the visible navigable set (elements stay
\* attached while the page is shown).
C2_CursorVisible ==
  (inited /\ currentFocusedItem # "null") => Navigable(currentFocusedItem)

\* C3: getVisibleNavItems returns, in document order and without repetition,
\* exactly the items that are not search-hidden and that have no enclosing
\* section or an expanded one.
C3_VisibleItemsExact ==
  \A nav \in Instances :
    LET visible == GetVisibleNavItems(nav, hidden, expanded)
        all == NavItemsSeq(nav)
    IN /\ Range(visible) = {it \in Range(all) : Navigable(it)}
       /\ \A j, k \in 1..Len(visible) :
            j < k => ArrayIndexOf(all, visible[j]) < ArrayIndexOf(all, visible[k])

\* A state where the search filter hides one item, a collapsed section hides
\* two more, and one item is left.
C3_Witness ==
  /\ inited
  /\ hidden["m3"]
  /\ ~expanded["mA"]
  /\ GetVisibleNavItems("mobile", hidden, expanded) = <<"m0">>

\* Two characters that differ at most in case.
SameLetter(a, b) ==
  a = b \/ {a, b} \in {{"a", "A"}, {"b", "B"}, {"z", "Z"}}

\* text contains q, case ignored.
ContainsIgnoringCase(text, q) ==
  \E k \in 0..(Len(text) - Len(q)) : \A j \in 1..Len(q) : SameLetter(text[k + j], q[j])

\* The search instance an input event was dispatched to.
InstanceOfInput(el) == CHOOSE inst \in Instances : SearchInputOf(inst) = el

\* The last event was an input event whose trimmed query is not empty.
AfterQuery == lastEvent.type = "input" /\ Trim(lastEvent.value) # <<>>

\* The last event was an input event whose trimmed query is empty.
AfterEmptyQuery == lastEvent.type = "input" /\ Trim(lastEvent.value) = <<>>

AnyMark(item) ==
  \E k \in 1..Len(content[item]) : \E j \in 1..Len(content[item][k]) :
    content[item][k][j].mark

\* C4: after an input event with a non-empty query, every item in the
\* instance's scope is shown iff its full text content contains the query,
\* case ignored, and the empty-state is visible iff no item of the scope matched.
C4_FilterShowsMatches ==
  AfterQuery =>
    LET inst == InstanceOfInput(lastEvent.target)
        query == Trim(lastEvent.value)
        scope == Range(NavItemsSeq(inst))
    IN /\ \A it \in scope :
            ~hidden[it] <=> ContainsIgnoringCase(TextContent(content[it]), query)
       /\ emptyState[inst] \in {"shown", "hidden"}
       /\ emptyState[inst] = "shown" <=>
            ~(\E it \in scope : ContainsIgnoringCase(TextContent(content[it]), query))

\* After the query " Ab" in the drawer: "Ab", "baba" and "a"+"b" are shown,
\* "BB" is hidden, the empty-state is hidden.
C4_Witness ==
  /\ AfterQuery
  /\ lastEvent.target = "search_mobile"
  /\ lastEvent.value = <<" ", "A", "b">>
  /\ ~hidden["m0"] /\ ~hidden["m1"] /\ ~hidden["m2"] /\ hidden["m3"]
  /\ emptyState["mobile"] = "hidden"

\* C5: after an input event with a non-empty query, every section in the
\* instance's scope is hidden iff it contains no non-hidden item, whatever
\* its expanded flag.
C5_SectionsFollowItems ==
  AfterQuery =>
    LET inst == InstanceOfInput(lastEvent.target)
    IN \A s \in Range(NavSectionsSeq(inst)) :
         sectionHidden[s] <=> (\A it \in Items : SectionOf(it) = s => hidden[it])

\* After a query in the drawer: a collapsed section with a match stays shown,
\* the section without a match is hidden.
C5_Witness ==
  /\ AfterQuery
  /\ lastEvent.target = "search_mobile"
  /\ ~expanded["mA"] /\ ~sectionHidden["mA"] /\ ~hidden["m1"]
  /\ sectionHidden["mB"] /\ hidden["m3"]

\* C6: an input event with an empty or whitespace-only query leaves every item
\* and section of the instance unhidden, its empty-state hidden, and no
\* highlight mark anywhere in the document.
C6_EmptyQueryShowsAll ==
  AfterEmptyQuery =>
    LET inst == InstanceOfInput(lastEvent.target)
    IN /\ \A it \in Range(NavItemsSeq(inst)) : ~hidden[it]
       /\ \A s \in Range(NavSectionsSeq(inst)) : ~sectionHidden[s]
       /\ emptyState[inst] = "hidden"
       /\ \A it \in Items : ~AnyMark(it)

\* After a whitespace-only query in the drawer, while the desktop instance
\* still shows the result of an earlier query of its own.
C6_Witness ==
  /\ AfterEmptyQuery
  /\ lastEvent.target = "search_mobile"
  /\ lastEvent.value = <<" ">>
  /\ hidden["d1"]
  /\ \A it \in Range(NavItemsSeq("mobile")) : ~hidden[it]

\* C7: for every non-empty query and every prior state, a second input event
\* with the same query leaves exactly the hidden flags, the empty-state and
\* the highlight marks (the child nodes of every item) of the first.
C7_InputIdempotent ==
  inited =>
    \A inst \in Instances, value \in Queries :
      Trim(value) # <<>> =>
        LET once == InputResult(SearchState, inst, value)
        IN InputResult(once, inst, value) = once

\* The state after a first input of "a" in the drawer, marks in place, on
\* which a second input of "a" changes nothing.
C7_Witness ==
  /\ AfterQuery
  /\ lastEvent.target = "search_mobile"
  /\ lastEvent.value = <<"a">>
  /\ AnyMark("m1")
  /\ InputResult(SearchState, "mobile", lastEvent.value) = SearchState

\* C8: an input event on one search instance leaves the hidden flag of every
\* item and section, and the empty-state, of the other instance unchanged.
C8_InstancesIndependent ==
  [][\A inst \in Instances :
       (lastEvent'.type = "input" /\ lastEvent'.target = SearchInputOf(inst)) =>
         \A other \in Instances \ {inst} :
           /\ \A it \in Range(NavItemsSeq(other)) : hidden'[it] = hidden[it]
           /\ \A s \in Range(NavSectionsSeq(other)) : sectionHidden'[s] = sectionHidden[s]
           /\ emptyState'[other] = emptyState[other]]_vars

\* After the query "a" in the drawer, with the desktop instance still hiding
\* the link its own earlier query did not match.
C8_Witness ==
  /\ AfterQuery
  /\ lastEvent.target = "search_mobile"
  /\ lastEvent.value = <<"a">>
  /\ hidden["m3"]
  /\ hidden["d1"]
  /\ emptyState["desktop"] = "hidden"

\* The navigable set of a nav in document order, stated from the classes.
NavigableSeq(nav) == SelectSeq(NavItemsSeq(nav), LAMBDA it : Navigable(it))

\* This step handles a keydown of the key whose target, the focused element,
\* is a nav item that is in the navigable set and not its last item.
ArrowDownBeforeLast ==
  /\ lastEvent'.type = "keydown"
  /\ lastEvent'.key = "ArrowDown"
  /\ focus \in Items
  /\ ArrayIndexOf(NavigableSeq(NavOf(focus)), focus) >= 1
  /\ ArrayIndexOf(NavigableSeq(NavOf(focus)), focus) < Len(NavigableSeq(NavOf(focus)))

\* The item after the focused one in the navigable set.
NextNavigable ==
  NavigableSeq(NavOf(focus))[ArrayIndexOf(NavigableSeq(NavOf(focus)), focus) + 1]

\* C9 as stated: ArrowDown on the item at index i of the visible set, not the
\* last, moves the cursor to the item at index i+1, the previous cursor
\* holder's tabindex becomes -1, the new item's becomes 0, and the default
\* action is suppressed.
C9_ArrowDownAsStated ==
  [][ArrowDownBeforeLast =>
       /\ currentFocusedItem' = NextNavigable
       /\ currentFocusedItem # "null" => tabindex'[currentFocusedItem] = "-1"
       /\ tabindex'[NextNavigable] = "0"
       /\ lastEvent'.prevented]_vars

\* C9 amended: as stated, but the previous cursor holder's tabindex becomes -1
\* only when the holder is another element than the item at index i+1 (the
\* cursor may already be there while the focus is on the item before it).
C9_ArrowDownMovesCursor ==
  [][ArrowDownBeforeLast =>
       /\ currentFocusedItem' = NextNavigable
       /\ (currentFocusedItem # "null" /\ currentFocusedItem # NextNavigable)
            => tabindex'[currentFocusedItem] = "-1"
       /\ tabindex'[NextNavigable] = "0"
       /\ lastEvent'.prevented]_vars

\* After ArrowDown on the second link of the expanded section: the cursor is
\* on the third link with tabindex 0, the second link has tabindex -1.
C9_Witness ==
  /\ lastEvent.type = "keydown"
  /\ lastEvent.key = "ArrowDown"
  /\ lastEvent.target = "m1"
  /\ lastEvent.prevented
  /\ Navigable("m1") /\ Navigable("m2")
  /\ currentFocusedItem = "m2"
  /\ focus = "m2"
  /\ tabindex["m2"] = "0"
  /\ tabindex["m1"] = "-1"

\* C10: on a section header, ArrowRight expands the section only if it is
\* collapsed and ArrowLeft collapses it only if it is expanded; otherwise the
\* key changes no section state.
C10_HeaderLeftRight ==
  [][(lastEvent'.type = "keydown" /\ focus \in Headers) =>
       LET section == SectionOfHeader(focus)
       IN /\ lastEvent'.key = "ArrowRight" =>
               expanded' = IF expanded[section] THEN expanded
                           ELSE [expanded EXCEPT ![section] = TRUE]
          /\ lastEvent'.key = "ArrowLeft" =>
               expanded' = IF expanded[section] THEN [expanded EXCEPT ![section] = FALSE]
                           ELSE expanded]_vars

\* After ArrowRight has expanded a collapsed section from its header.
C10_Witness ==
  /\ lastEvent.type = "keydown"
  /\ lastEvent.key = "ArrowRight"
  /\ lastEvent.target = "h_mA"
  /\ lastEvent.prevented
  /\ expanded["mA"]
  /\ focus = "h_mA"

\* The width a pointer move at the position of the event asks for, from the
\* position and width the drag started with.
AskedWidth(event) ==
  startWidth + ((CHOOSE x \in ParseInt(event.value) : TRUE) - startX)

\* The width is outside the bounds the style sheet gives.
OutsideBounds(width) ==
  \/ \E m \in ParseInt(cssMax) : width > m
  \/ \E m \in ParseInt(cssMin) : width < m

\* The width is inside the bounds the style sheet gives.
InsideBounds(width) ==
  /\ \E m \in ParseInt(cssMin) : m <= width
  /\ \E m \in ParseInt(cssMax) : width <= m

\* C11: during a drag, a pointer move whose computed width (start width plus
\* horizontal delta) is above the max bound or below the min bound leaves the
\* sidebar width and the grid columns as they were, and a pointer move that
\* writes a width writes the computed width, which lies within [min,max].
C11_DragClamped ==
  [][(lastEvent'.type = "mousemove" /\ isResizing) =>
       LET newWidth == AskedWidth(lastEvent')
       IN /\ OutsideBounds(newWidth) =>
               UNCHANGED <<sidebarWidth, gridTemplateColumns>>
          /\ sidebarWidth' # sidebarWidth =>
               (sidebarWidth' = Px(newWidth) /\ InsideBounds(newWidth))
          /\ gridTemplateColumns' # gridTemplateColumns =>
               InsideBounds(newWidth)]_vars

\* C11 witness: a drag has applied a width and the last pointer move asked
\* for one above the max bound.
C11_Witness ==
  /\ lastEvent.type = "mousemove"
  /\ isResizing
  /\ sidebarWidth # <<>>
  /\ gridTemplateColumns # <<>>
  /\ \E m \in ParseInt(cssMax) : AskedWidth(lastEvent) > m

\* C12: a released drag stores the sidebar's width w; when initResizable then
\* runs for a fresh page with a stored w, it sets the sidebar width to w and
\* builds the grid columns from w if the viewport is at least 1024 wide and
\* min <= w <= max, and otherwise leaves the width and the columns unset.
C12_WidthRoundTrip ==
  [][/\ (lastEvent'.type = "mouseup" /\ isResizing) =>
          storedWidth' = <<NumberToString(OffsetWidth(sidebarWidth))>>
     /\ (lastEvent'.type = "init" /\ storedWidth # <<>>) =>
          LET w == CHOOSE n \in ParseInt(storedWidth[1]) : TRUE
          IN IF innerWidth >= 1024 /\ InsideBounds(w)
             THEN /\ sidebarWidth' = Px(w)
                  /\ gridTemplateColumns' = <<Px(w), <<"1", "f", "r">>, <<"9", "p", "x">> >>
             ELSE /\ sidebarWidth' = <<>>
                  /\ gridTemplateColumns' = <<>>]_vars

\* C12 witness: initResizable has restored a stored width other than the
\* style sheet's.
C12_Witness ==
  /\ lastEvent.type = "init"
  /\ storedWidth # <<>>
  /\ storedWidth[1] # NumberToString(DefaultWidth)
  /\ sidebarWidth = storedWidth[1] \o <<"p", "x">>
  /\ gridTemplateColumns # <<>>

RedirectNav == "desktop"

\* C14: when an arrow, Home or End key is pressed with the focus on the body,
\* the default action is suppressed and the cursor is set to the active item
\* if it is navigable, otherwise to the remembered cursor item if it is
\* navigable, otherwise to the first visible item.
C14_RedirectPreference ==
  [][(/\ lastEvent'.type = "keydown"
      /\ lastEvent'.key \in NavKeys
      /\ lastEvent'.target = "body") =>
       LET visible == NavigableSeq(RedirectNav)
           active == ActiveItem(RedirectNav, page)
       IN /\ lastEvent'.prevented
          /\ visible # <<>> =>
               currentFocusedItem' =
                 IF active \in Range(visible) THEN active
                 ELSE IF currentFocusedItem \in Range(visible)
                 THEN currentFocusedItem
                 ELSE visible[1]]_vars

\* Whether a key event of the given key on an element of the given set was
\* handled by the step.
Pressed(key, targets) ==
  /\ lastEvent'.type = "keydown"
  /\ lastEvent'.key = key
  /\ lastEvent'.target \in targets

\* The item is the first navigable item of its section.
FirstOfItsSection(item) ==
  /\ SectionOf(item) # "none"
  /\ \A k \in 1..Len(NavigableSeq(NavOf(item))) :
       SectionOf(NavigableSeq(NavOf(item))[k]) = SectionOf(item) =>
         k >= ArrayIndexOf(NavigableSeq(NavOf(item)), item)

\* C15: when ArrowUp is pressed with the focus on a navigable nav item, the
\* focus moves to the header of the item's section if the item is the first
\* item of its section, and otherwise the cursor moves to the previous item
\* of the visible set.
C15_ArrowUpOnItem ==
  [][(Pressed("ArrowUp", Items) /\ Navigable(lastEvent'.target)) =>
       LET item == lastEvent'.target
           visible == NavigableSeq(NavOf(item))
           i == ArrayIndexOf(visible, item)
       IN IF FirstOfItsSection(item)
          THEN focus' = HeaderOf(SectionOf(item))
          ELSE i > 1 => currentFocusedItem' = visible[i - 1]]_vars

\* C16: when ArrowLeft is pressed with the focus on a nav item inside a
\* section, afterwards the section is collapsed and the focus is on its
\* header; on an item without a section, no section and no focus changes.
C16_ArrowLeftOnItem ==
  [][Pressed("ArrowLeft", Items) =>
       LET section == SectionOf(lastEvent'.target)
       IN IF section # "none"
          THEN ~expanded'[section] /\ focus' = HeaderOf(section)
          ELSE expanded' = expanded /\ focus' = focus]_vars

\* C16 witness: ArrowLeft on a link of an expanded section has collapsed it
\* and put the focus on its header.
C16_Witness ==
  /\ lastEvent.type = "keydown"
  /\ lastEvent.key = "ArrowLeft"
  /\ lastEvent.target = "m2"
  /\ ~expanded["mA"]
  /\ focus = "h_mA"

\* The header that follows a header in document order, if any.
NextHeader(h) ==
  LET secs == NavSectionsSeq(NavOf(h))
      i == ArrayIndexOf(secs, SectionOfHeader(h))
  IN IF i < Len(secs) THEN HeaderOf(secs[i + 1]) ELSE "null"

\* The first link of a section in document order.
FirstLinkOf(s) ==
  LET links == SelectSeq(NavItemsSeq(NavOf(HeaderOf(s))), LAMBDA it : SectionOf(it) = s)
  IN links[1]

\* C17: when ArrowDown is pressed with the focus on a section header, the
\* cursor moves to the section's first item if the section is expanded;
\* otherwise the focus moves to the next header in document order, and stays
\* where it is on the last header.
C17_ArrowDownOnHeader ==
  [][Pressed("ArrowDown", Headers) =>
       LET h == lastEvent'.target
           section == SectionOfHeader(h)
       IN IF expanded[section]
          THEN currentFocusedItem' = FirstLinkOf(section)
          ELSE IF NextHeader(h) # "null"
          THEN focus' = NextHeader(h)
          ELSE focus' = focus]_vars

\* C18: when Escape is pressed with the focus on the search input of the
\* keyboard controller, the focus ends on the remembered cursor item (on the
\* body when there is none), whatever the search filter and the sections.
C18_EscapeRestoresFocus ==
  [][Pressed("Escape", {SearchInputOf(KeyboardNav)}) =>
       focus' = IF currentFocusedItem # "null" THEN currentFocusedItem
                ELSE "body"]_vars

\* C19: when the min or the max bound read from the style variables is not
\* a number, neither a pointer move of a drag nor initResizable changes the
\* sidebar width or the grid columns.
C19_UnparsableBounds ==
  [][(/\ ParseInt(cssMin) = {} \/ ParseInt(cssMax) = {}
      /\ \/ lastEvent'.type = "mousemove" /\ isResizing
         \/ lastEvent'.type = "init") =>
       UNCHANGED <<sidebarWidth, gridTemplateColumns>>]_vars

\* C19 witness: a pointer move of a drag asked for a width the max bound
\* allows while the min bound is not a number, after a width was stored.
C19_Witness ==
  /\ lastEvent.type = "mousemove"
  /\ isResizing
  /\ storedWidth # <<>>
  /\ ParseInt(cssMin) = {}
  /\ \E m \in ParseInt(cssMax) : AskedWidth(lastEvent) <= m

\* C20: after a call of initKeyboardNavigation that follows a page transition
\* the cursor is null or references an element of the document shown; it
\* never references an element of the document the transition replaced.
C20_NoDetachedCursor ==
  inited => currentFocusedItem # Detached

\* C21: every value a drag release writes to the stored width lies within
\* the bounds read from the style variables.
C21_StoredWidthInBounds ==
  [][(lastEvent'.type = "mouseup" /\ isResizing) =>
       /\ storedWidth' # <<>>
       /\ \E w \in ParseInt(storedWidth'[1]) : InsideBounds(w)]_vars

\* C22: when the timer of the resize listener fires, the grid columns are
\* empty below 1024 and built from the sidebar's inline width from 1024 on
\* when there is one; and no step writes non-empty grid columns while the
\* viewport is below 1024.
C22_GridFollowsViewport ==
  [][/\ lastEvent'.type = "timeout" =>
          IF innerWidth < 1024 THEN gridTemplateColumns' = <<>>
          ELSE sidebarWidth # <<>> =>
                 gridTemplateColumns' =
                   <<sidebarWidth, <<"1", "f", "r">>, <<"9", "p", "x">> >>
     /\ (innerWidth < 1024 /\ gridTemplateColumns' # gridTemplateColumns) =>
          gridTemplateColumns' = <<>>]_vars

\* C22 witness: the timer has fired on a desktop viewport with a dragged
\* width and built the grid columns from it.
C22_Witness ==
  /\ lastEvent.type = "timeout"
  /\ innerWidth >= 1024
  /\ sidebarWidth # <<>>
  /\ sidebarWidth # Px(DefaultWidth)
  /\ gridTemplateColumns = <<sidebarWidth, <<"1", "f", "r">>, <<"9", "p", "x">> >>

\* The text of the child nodes before position j, joined.
TextBefore(nodes, j) == ConcatText(SubSeq(nodes, 1, j - 1))

\* q occurs in text at position p, case ignored.
OccursAt(text, q, p) ==
  /\ p + Len(q) - 1 <= Len(text)
  /\ \A i \in 1..Len(q) : SameLetter(text[p + i - 1], q[i])

\* C23: in every state the search reaches, the clearing step gives every
\* item its original child nodes back, every item's full text content is the
\* original one, and every text node of the original carries at most one
\* mark; after an input event with a query the mark wraps the first
\* occurrence of the query in that text node.
C23_HighlightExact ==
  \A it \in Items :
    /\ ClearHighlights(content)[it] = OriginalContent(it)
    /\ TextContent(content[it]) = TextContent(OriginalContent(it))
    /\ \A k \in 1..Len(content[it]) :
         LET nodes == content[it][k]
             marks == {j \in 1..Len(nodes) : nodes[j].mark}
         IN /\ Cardinality(marks) <= Len(OriginalContent(it)[k])
            /\ \A j \in marks :
                 AfterQuery =>
                 /\ OccursAt(ConcatText(nodes), Trim(lastEvent.value),
                             Len(TextBefore(nodes, j)) + 1)
                 /\ Len(nodes[j].text) = Len(Trim(lastEvent.value))
                 /\ \A p \in 1..Len(TextBefore(nodes, j)) :
                      ~OccursAt(ConcatText(nodes), Trim(lastEvent.value), p)

\* C23 witness: after a query that occurs twice in a text node, the node is
\* split into before, mark and after, with the second occurrence unmarked.
C23_Witness ==
  /\ AfterQuery
  /\ Len(content["m1"][1]) = 3
  /\ content["m1"][1][2].mark
  /\ ContainsIgnoringCase(content["m1"][1][3].text, Trim(lastEvent.value))
  /\ ~content["m1"][1][3].mark
\* C24: at most one element carries data-focused, and an element that carries
\* it is the element currentFocusedItem references.
C24_SingleFocusedMarker ==
  /\ Cardinality(dataFocused) <= 1
  /\ dataFocused \subseteq {currentFocusedItem}

\* The elements that setFocusedItem was called with in this step: the new
\* cursor element and the elements that received the focused marker.
NewlyFocused ==
  (IF currentFocusedItem' # currentFocusedItem THEN {currentFocusedItem'} ELSE {})
    \cup (dataFocused' \ dataFocused)

\* C25: every element a key handler passes to setFocusedItem is, at that
\* moment, in the visible navigable set: not hidden by the search filter and
\* not inside a collapsed section.
C25_FocusedItemNavigable ==
  [][lastEvent'.type = "keydown" =>
       \A item \in NewlyFocused : item \in Items /\ Navigable(item)']_vars

====
